---- MODULE Spec2Model ----
(***************************************************************************)
(* Model of upload.js: a sequential script that loads its configuration,   *)
(* validates it, and then drives the cPanel HTTP API through               *)
(* uploadFiles and ensureRemoteDirectory, together with the two delete     *)
(* operations the README documents.                                        *)
(*                                                                         *)
(* JavaScript strings that the code inspects (split, trim, includes,       *)
(* basename, padStart, template concatenation of names) are sequences of   *)
(* one-character strings.  Error messages are the sequence of the parts    *)
(* of the template literal that builds them.  JSON values are tagged       *)
(* records [t |-> type, v |-> value].                                      *)
(***************************************************************************)
EXTENDS Integers, Sequences, FiniteSets, TLC

VARIABLES
    pc,            \* position of the script: module top level, then main()
    procEnv,       \* process.env restricted to the four settings read
    clock,         \* wall clock, in seconds after midnight of the run's day
    timestamp,     \* const timestamp of main()
    tempExists,    \* whether temp_upload exists on the local disk
    tempCreated,   \* whether main() got past fs.mkdir(tempDir)
    localFiles,    \* local files written so far: path -> content
    requests,      \* the HTTP exchanges so far, in order: request and outcome
    thrown,        \* the error caught by main()'s catch, or NoError
    cleanupWarned, \* whether the finally block logged its warning
    exitCode,      \* the process exit code once pc = "exited"
    remoteDirs,    \* provider side: absolute paths of existing directories
    call,          \* client harness: the last completed operation call
    prevCall       \* client harness: the call completed just before it

vars == <<pc, procEnv, clock, timestamp, tempExists, tempCreated,
          localFiles, requests, thrown, cleanupWarned, exitCode,
          remoteDirs, call, prevCall>>

progVars == <<pc, procEnv, clock, timestamp, tempExists, tempCreated,
              localFiles, requests, thrown, cleanupWarned, exitCode>>

harnessVars == <<remoteDirs, call, prevCall>>

(***************************************************************************)
(* Bounds of the model                                                     *)
(***************************************************************************)
MaxEnvLines == 2    \* lines of a .env file
MaxTicks == 2       \* seconds that may pass during one run
MaxFiles == 2       \* length of the localFiles argument of uploadFiles

(***************************************************************************)
(* Strings                                                                 *)
(***************************************************************************)
NoValue == <<"undefined">>   \* marks an unset variable; no string equals it

StartsWith(s, p) == Len(s) >= Len(p) /\ SubSeq(s, 1, Len(p)) = p

\* String.prototype.includes
Includes(s, sub) ==
    \E i \in 0..(Len(s) - Len(sub)) : SubSeq(s, i + 1, i + Len(sub)) = sub

IsSpace(c) == c \in {" ", "\t", "\r"}

RECURSIVE TrimStart(_)
TrimStart(s) ==
    IF s # <<>> /\ IsSpace(Head(s)) THEN TrimStart(Tail(s)) ELSE s

RECURSIVE TrimEnd(_)
TrimEnd(s) ==
    IF s # <<>> /\ IsSpace(s[Len(s)]) THEN TrimEnd(SubSeq(s, 1, Len(s) - 1))
    ELSE s

\* String.prototype.trim
Trim(s) == TrimEnd(TrimStart(s))

\* index of the first occurrence of character c in s, 0 when there is none
IndexOf(s, c) ==
    IF \E i \in 1..Len(s) : s[i] = c
    THEN CHOOSE i \in 1..Len(s) : s[i] = c /\ \A j \in 1..(i - 1) : s[j] # c
    ELSE 0

\* index of the last occurrence of character c in s, 0 when there is none
LastIndexOf(s, c) ==
    IF \E i \in 1..Len(s) : s[i] = c
    THEN CHOOSE i \in 1..Len(s) :
             s[i] = c /\ \A j \in (i + 1)..Len(s) : s[j] # c
    ELSE 0

DigitChars == <<"0", "1", "2", "3", "4", "5", "6", "7", "8", "9">>

\* String(n) for a natural number
RECURSIVE NumToString(_)
NumToString(n) ==
    IF n < 10 THEN <<DigitChars[n + 1]>>
    ELSE NumToString(n \div 10) \o <<DigitChars[(n % 10) + 1]>>

\* String.prototype.padStart with a one-character filler
RECURSIVE PadStart(_, _, _)
PadStart(s, width, fill) ==
    IF Len(s) >= width THEN s ELSE PadStart(<<fill>> \o s, width, fill)

(***************************************************************************)
(* Environment loading and validation (module top level)                   *)
(***************************************************************************)
K_USERNAME == <<"U", "S", "E", "R", "N", "A", "M", "E">>
K_SUBDOMAINNAME ==
    <<"S", "U", "B", "D", "O", "M", "A", "I", "N", "N", "A", "M", "E">>
K_BLUEHOSTAPI == <<"B", "L", "U", "E", "H", "O", "S", "T", "A", "P", "I">>
K_HOME_BASE == <<"H", "O", "M", "E", "_", "B", "A", "S", "E">>

EnvKeys == {K_USERNAME, K_SUBDOMAINNAME, K_BLUEHOSTAPI, K_HOME_BASE}

\* process.env[key], undefined when unset
EnvGet(env, key) == IF key \in DOMAIN env THEN env[key] ELSE NoValue

\* process.env[key] = value
EnvSet(env, key, value) ==
    [k \in DOMAIN env \cup {key} |-> IF k = key THEN value ELSE env[k]]

\* One line of .env as loadEnv's forEach body treats it: the assignment it
\* makes, or none.  [key, ...valueParts] = trimmed.split('='); the value is
\* valueParts.join('='), that is, everything after the first '='.
ParseEnvLine(line) ==
    LET trimmed == Trim(line)
        eq == IndexOf(trimmed, "=")
        key == IF eq = 0 THEN trimmed ELSE SubSeq(trimmed, 1, eq - 1)
        hasValueParts == eq # 0
        value == SubSeq(trimmed, eq + 1, Len(trimmed))
    IN  IF trimmed # <<>> /\ ~StartsWith(trimmed, <<"#">>)
           /\ key # <<>> /\ hasValueParts
        THEN [assigns |-> TRUE, key |-> Trim(key), value |-> Trim(value)]
        ELSE [assigns |-> FALSE]

RECURSIVE ApplyEnvLines(_, _)
ApplyEnvLines(env, lines) ==
    IF lines = <<>> THEN env
    ELSE LET a == ParseEnvLine(Head(lines))
         IN  ApplyEnvLines(IF a.assigns THEN EnvSet(env, a.key, a.value)
                           ELSE env,
                           Tail(lines))

\* loadEnv: a missing .env is caught and leaves process.env as it is
loadEnv(env, file) ==
    IF ~file.exists THEN env ELSE ApplyEnvLines(env, file.lines)

\* JavaScript truthiness of a string-or-undefined
Truthy(s) == s # NoValue /\ s # <<>>

CPANEL_USER(env) == EnvGet(env, K_USERNAME)
AUTH_TOKEN(env) == EnvGet(env, K_BLUEHOSTAPI)

DefaultHomeBase == <<"/", "h", "o", "m", "e", "2">>

\* process.env.HOME_BASE || '/home2'
HOME_BASE(env) ==
    IF Truthy(EnvGet(env, K_HOME_BASE)) THEN EnvGet(env, K_HOME_BASE)
    ELSE DefaultHomeBase

S_public_html == <<"p", "u", "b", "l", "i", "c", "_", "h", "t", "m", "l">>

\* `${HOME_BASE}/${CPANEL_USER}/public_html`
PUBLIC_HTML_PATH(env) ==
    HOME_BASE(env) \o <<"/">> \o CPANEL_USER(env) \o <<"/">> \o S_public_html

\* the validation without its SUBDOMAINNAME test
ConfigMissingNoSubdomain(env) ==
    \/ ~Truthy(CPANEL_USER(env))
    \/ ~Truthy(AUTH_TOKEN(env))

\* the condition of the validation `if` that ends in process.exit(1)
ConfigMissing(env) ==
    \/ ~Truthy(CPANEL_USER(env))
    \/ ~Truthy(EnvGet(env, K_SUBDOMAINNAME))
    \/ ~Truthy(AUTH_TOKEN(env))

(***************************************************************************)
(* Timestamp and generated names                                           *)
(***************************************************************************)
\* new Date() for the run's day; getMonth() is zero-based
Now(seconds) ==
    [year |-> 2026, month |-> 10, date |-> 6,
     hours |-> (seconds \div 3600) % 24,
     minutes |-> (seconds \div 60) % 60,
     seconds |-> seconds % 60]

\* getTimestamp: YYYYMMDDHHMMSS
getTimestamp(seconds) ==
    LET now == Now(seconds)
    IN  NumToString(now.year)
        \o PadStart(NumToString(now.month + 1), 2, "0")
        \o PadStart(NumToString(now.date), 2, "0")
        \o PadStart(NumToString(now.hours), 2, "0")
        \o PadStart(NumToString(now.minutes), 2, "0")
        \o PadStart(NumToString(now.seconds), 2, "0")

S_txt == <<".", "t", "x", "t">>
S_test_dir == <<"_", "t", "e", "s", "t", "_", "d", "i", "r">>
S_file2_txt == <<"_", "f", "i", "l", "e", "2">> \o S_txt
S_hello_world == <<"h", "e", "l", "l", "o", " ", "w", "o", "r", "l", "d">>

\* path.join(__dirname, 'temp_upload')
TempDir == <<"/", "w", "/", "t", "e", "m", "p", "_", "u", "p", "l", "o", "a", "d">>

\* path.join of a directory and a name
PathJoin(dir, name) == dir \o <<"/">> \o name

file1Name(ts) == ts \o S_txt
dirName(ts) == ts \o S_test_dir
\* the name of file 2 built from a second reading of the clock
file2NameFresh(ts) == getTimestamp(clock) \o S_file2_txt

file2Name(ts) == ts \o S_file2_txt
file1Path(ts) == PathJoin(TempDir, file1Name(ts))
file2Path(ts) == PathJoin(TempDir, file2Name(ts))

\* `public_html/${dirName}`
NestedRemoteDir(ts) == S_public_html \o <<"/">> \o dirName(ts)

(***************************************************************************)
(* JSON values and property access                                         *)
(***************************************************************************)
Undefined == [t |-> "undefined"]
Null == [t |-> "null"]
Num(n) == [t |-> "number", v |-> n]
Str(s) == [t |-> "string", v |-> s]
Bool(b) == [t |-> "boolean", v |-> b]
Arr(elems) == [t |-> "array", v |-> elems]
Obj(fields) == [t |-> "object", v |-> fields]

IsNullish(x) == x.t \in {"undefined", "null"}

\* x.key for a value that is neither null nor undefined
Prop(x, key) ==
    IF x.t = "object" /\ key \in DOMAIN x.v THEN x.v[key] ELSE Undefined

\* x?.key
OptProp(x, key) == IF IsNullish(x) THEN Undefined ELSE Prop(x, key)

\* x?.[0]
OptFirst(x) ==
    IF IsNullish(x) THEN Undefined
    ELSE IF x.t = "array" /\ Len(x.v) >= 1 THEN x.v[1]
    ELSE IF x.t = "object" THEN Prop(x, "0")
    ELSE Undefined

\* a === b
StrictEq(a, b) ==
    /\ a.t = b.t
    /\ (a.t \in {"undefined", "null"} \/ a.v = b.v)

S_exists == <<"e", "x", "i", "s", "t", "s">>

(***************************************************************************)
(* Errors and outcomes of an operation                                     *)
(***************************************************************************)
NoError == <<>>
Returned(value) == [ok |-> TRUE, value |-> value]
Threw(message) == [ok |-> FALSE, error |-> message]

\* response.ok
ResponseOk(resp) == resp.status >= 200 /\ resp.status <= 299

\* the error a rejected fetch is rethrown as
FetchFailed(resp) == Threw(<<"Fetch failed: ", resp.message>>)

\* the HTTP error without the status in its message
HttpErrorNoStatus(resp) == Threw(<<"HTTP ", "error">>)

\* the error thrown for a response whose ok flag is false
HttpError(resp) ==
    Threw(<<"HTTP ", ToString(resp.status), ": ", resp.statusText>>)

\* response.json() rejecting on a body that is not JSON
JsonSyntaxError == Threw(<<"Unexpected token in JSON">>)

\* reading a property of a null payload
NullPayloadError == Threw(<<"Cannot read properties of null">>)

\* calling includes on a value that has no such method
NotAFunctionError == Threw(<<"includes is not a function">>)

(***************************************************************************)
(* ensureRemoteDirectory                                                   *)
(***************************************************************************)
Host(env) == EnvGet(env, K_SUBDOMAINNAME)

Authorization(env) == [scheme |-> "cpanel", user |-> CPANEL_USER(env),
                       token |-> AUTH_TOKEN(env)]

\* the GET request ensureRemoteDirectory issues
MkdirRequest(env, parentAbsolutePath, name) ==
    [method |-> "GET", host |-> Host(env), endpoint |-> "/json-api/cpanel",
     authorization |-> Authorization(env),
     cpanel_jsonapi_user |-> CPANEL_USER(env),
     cpanel_jsonapi_apiversion |-> "2",
     cpanel_jsonapi_module |-> "Fileman",
     cpanel_jsonapi_func |-> "mkdir",
     path |-> parentAbsolutePath, name |-> name, permissions |-> "0755"]

\* the success test with == in place of ===
MkdirResultLooseOne(payload) ==
    LET r == OptProp(OptProp(Prop(payload, "cpanelresult"), "event"),
                     "result")
    IN  \/ r.t = "number" /\ r.v = 1
        \/ r.t = "string" /\ r.v = <<"1">>
        \/ r.t = "boolean" /\ r.v

\* payload.cpanelresult?.event?.result === 1
MkdirResultIsOne(payload) ==
    StrictEq(OptProp(OptProp(Prop(payload, "cpanelresult"), "event"),
                     "result"),
             Num(1))

\* payload.cpanelresult?.data?.[0]?.reason
MkdirReason(payload) ==
    OptProp(OptFirst(OptProp(Prop(payload, "cpanelresult"), "data")),
            "reason")

\* reason?.includes('exists'): "yes", "no", or "throws"
ReasonIncludesExists(reason) ==
    IF IsNullish(reason) THEN "no"
    ELSE IF reason.t = "string"
         THEN (IF Includes(reason.v, S_exists) THEN "yes" ELSE "no")
    ELSE IF reason.t = "array"
         THEN (IF \E i \in 1..Len(reason.v) : StrictEq(reason.v[i], Str(S_exists))
               THEN "yes" ELSE "no")
    ELSE "throws"

\* the classification without its `else if` on the reason
MkdirClassifyNoExists(payload) ==
    IF payload.t = "null" THEN NullPayloadError
    ELSE IF StrictEq(OptProp(OptProp(Prop(payload, "cpanelresult"), "event"),
                             "result"),
                     Num(1))
         THEN Returned(TRUE)
    ELSE Threw(<<"Directory creation failed">>)

\* the if / else if / else over the decoded payload
MkdirClassify(payload) ==
    IF payload.t = "null" THEN NullPayloadError
    ELSE IF MkdirResultIsOne(payload) THEN Returned(TRUE)
    ELSE IF ReasonIncludesExists(MkdirReason(payload)) = "yes"
         THEN Returned(TRUE)
    ELSE IF ReasonIncludesExists(MkdirReason(payload)) = "throws"
         THEN NotAFunctionError
    ELSE Threw(<<"Directory creation failed">>)

\* ensureRemoteDirectory from the fetch on: what the call returns or throws
MkdirOutcome(resp) ==
    IF resp.kind = "reject" THEN FetchFailed(resp)
    ELSE IF ~ResponseOk(resp) THEN HttpError(resp)
    ELSE IF ~resp.body.json THEN JsonSyntaxError
    ELSE MkdirClassify(resp.body.value)

(***************************************************************************)
(* uploadFiles                                                             *)
(***************************************************************************)
S_dir == <<"d", "i", "r">>
S_file_ == <<"f", "i", "l", "e", "-">>

\* FormData.set: replaces the entries of that name, or appends one
FormSet(form, name, value) ==
    IF \E i \in 1..Len(form) : form[i].name = name
    THEN LET first == CHOOSE i \in 1..Len(form) :
                          form[i].name = name
                          /\ \A j \in 1..(i - 1) : form[j].name # name
         IN  [i \in 1..first |->
                 IF i = first THEN [name |-> name, value |-> value]
                 ELSE form[i]]
             \o SelectSeq(SubSeq(form, first + 1, Len(form)),
                          LAMBDA e : e.name # name)
    ELSE Append(form, [name |-> name, value |-> value])

\* FormData.append
FormAppend(form, name, value) == Append(form, [name |-> name, value |-> value])

\* path.basename (posix): trailing slashes dropped, then the last segment
RECURSIVE StripTrailingSlashes(_)
StripTrailingSlashes(p) ==
    IF Len(p) > 1 /\ p[Len(p)] = "/"
    THEN StripTrailingSlashes(SubSeq(p, 1, Len(p) - 1))
    ELSE p

basename(p) ==
    LET q == StripTrailingSlashes(p)
    IN  IF q = <<"/">> THEN <<>>
        ELSE SubSeq(q, LastIndexOf(q, "/") + 1, Len(q))

\* new File([buffer], fileName, { type: 'text/plain' })
FilePart(buffer, fileName) ==
    [kind |-> "file", filename |-> fileName, bytes |-> buffer,
     type |-> "text/plain"]

\* part keys counted from 0
FileKeyZeroBased(index) == S_file_ \o NumToString(index - 1)

\* the key of the index-th file part: `file-${index}`
FileKey(index) == S_file_ \o NumToString(index)

\* the for loop of uploadFiles from `index` on: the finished form, or the
\* error of the first fs.readFile that fails
RECURSIVE AttachFiles(_, _, _, _)
AttachFiles(form, files, index, disk) ==
    IF files = <<>> THEN Returned(form)
    ELSE IF Head(files) \notin DOMAIN disk
         THEN Threw(<<"ENOENT: no such file or directory">>)
    ELSE AttachFiles(FormAppend(form, FileKey(index),
                                FilePart(disk[Head(files)],
                                         basename(Head(files)))),
                     Tail(files), index + 1, disk)

\* the form uploadFiles builds before it fetches
BuildForm(remoteDir, files, disk) ==
    AttachFiles(FormSet(<<>>, S_dir, [kind |-> "text", text |-> remoteDir]),
                files, 1, disk)

\* the POST request uploadFiles issues
UploadRequest(env, form) ==
    [method |-> "POST", host |-> Host(env),
     endpoint |-> "/execute/Fileman/upload_files",
     authorization |-> Authorization(env), body |-> form]

\* the success test as `if (payload.status)`
UploadStatusTruthy(payload) ==
    LET st == Prop(payload, "status")
    IN  CASE st.t \in {"undefined", "null"} -> FALSE
          [] st.t = "number" -> st.v # 0
          [] st.t = "string" -> st.v # <<>>
          [] st.t = "boolean" -> st.v
          [] OTHER -> TRUE

\* payload.status === 1
UploadStatusIsOne(payload) == StrictEq(Prop(payload, "status"), Num(1))

UploadClassify(payload) ==
    IF payload.t = "null" THEN NullPayloadError
    ELSE IF UploadStatusIsOne(payload) THEN Returned(TRUE)
    ELSE Threw(<<"File upload failed">>)

\* uploadFiles from the fetch on: what the call returns or throws
UploadOutcome(resp) ==
    IF resp.kind = "reject" THEN FetchFailed(resp)
    ELSE IF ~ResponseOk(resp) THEN HttpError(resp)
    ELSE IF ~resp.body.json THEN JsonSyntaxError
    ELSE UploadClassify(resp.body.value)

(***************************************************************************)
(* What the environment can hand the script                                *)
(***************************************************************************)
V_user == <<"u">>
V_sub == <<"s">>
V_token == <<"k">>
V_home == <<"/", "h">>

\* process.env before the script starts: each setting set or unset
InitialEnvs ==
    { [k \in present |->
          CASE k = K_USERNAME -> V_user
            [] k = K_SUBDOMAINNAME -> V_sub
            [] k = K_BLUEHOSTAPI -> V_token
            [] OTHER -> V_home] : present \in SUBSET EnvKeys }

\* lines a .env file may hold
EnvLines ==
    { K_USERNAME \o <<"=">> \o V_user,
      K_USERNAME \o <<"=">>,
      K_USERNAME,
      <<"#">> \o K_SUBDOMAINNAME \o <<"=">> \o V_sub,
      K_SUBDOMAINNAME \o <<"=">> \o V_sub,
      <<" ">> \o K_BLUEHOSTAPI \o <<" ", "=", " ", "k", "=", "k", " ">>,
      K_HOME_BASE \o <<"=">> \o V_home,
      <<>> }

RECURSIVE SeqsUpTo(_, _)
SeqsUpTo(S, n) ==
    IF n = 0 THEN {<<>>}
    ELSE LET shorter == SeqsUpTo(S, n - 1)
         IN  shorter \cup { Append(q, x) : q \in shorter, x \in S }

EnvFiles ==
    {[exists |-> FALSE]}
    \cup { [exists |-> TRUE, lines |-> ls] :
             ls \in SeqsUpTo(EnvLines, MaxEnvLines) }

RejectResponses ==
    { [kind |-> "reject", message |-> m] :
        m \in {"connect ECONNREFUSED", "fetch failed"} }

NotJson == [json |-> FALSE]
Json(v) == [json |-> TRUE, value |-> v]

HttpResponse(status, statusText, body) ==
    [kind |-> "http", status |-> status, statusText |-> statusText,
     body |-> body]

\* responses whose status is not 2xx
ErrorStatusResponses ==
    { HttpResponse(st[1], st[2], b) :
        st \in {<<403, "Forbidden">>, <<413, "Payload Too Large">>,
                <<500, "Internal Server Error">>},
        b \in {NotJson, Json(Obj([status |-> Num(0)]))} }

OkResponses(payloads) ==
    { HttpResponse(200, "OK", b) :
        b \in {NotJson} \cup { Json(v) : v \in payloads } }

Responses(payloads) ==
    RejectResponses \cup ErrorStatusResponses \cup OkResponses(payloads)

S_File_exists == <<"F", "i", "l", "e", " ">> \o S_exists
S_already_exists ==
    <<"D", "i", "r", "e", "c", "t", "o", "r", "y", " ", "a", "l", "r", "e",
      "a", "d", "y", " ">> \o S_exists

\* reason texts a mkdir failure may carry
ReasonTexts ==
    { S_File_exists, S_already_exists, S_exists \o <<"!">>,
      <<"e", "x", "i", "s", "t">>, <<"E", "x", "i", "s", "t", "s">>,
      <<"e", "x", "i", "s", " ", "t", "s">>,
      <<"d", "e", "n", "i", "e", "d">>, <<>> }

MkdirEvents ==
    {Undefined, Obj(<<>>)}
    \cup { Obj([result |-> r]) :
             r \in {Num(1), Num(0), Str(<<"1">>), Bool(TRUE)} }

MkdirDataItems ==
    {Obj(<<>>), Obj([reason |-> Null])}
    \cup { Obj([reason |-> Str(t)]) : t \in ReasonTexts }

MkdirData ==
    {Undefined, Arr(<<>>)} \cup { Arr(<<item>>) : item \in MkdirDataItems }

\* an object of the fields that are not undefined
ObjOf(keys, values) ==
    Obj([k \in { keys[i] : i \in { j \in 1..Len(keys) :
                                       values[j] # Undefined } } |->
           values[CHOOSE i \in 1..Len(keys) : keys[i] = k]])

\* decoded bodies of a mkdir response: the documented envelope with any of
\* its fields missing, and bodies that are not the envelope at all
MkdirPayloads ==
    {Null, Obj(<<>>), Obj([cpanelresult |-> Null])}
    \cup { Obj([cpanelresult |-> ObjOf(<<"event", "data">>, <<e, d>>)]) :
             e \in MkdirEvents, d \in MkdirData }

\* decoded bodies of an upload response
UploadPayloads ==
    {Null, Obj(<<>>)}
    \cup { Obj([status |-> st]) :
             st \in {Num(1), Num(0), Num(2), Bool(TRUE), Str(<<"1">>), Null,
                     Arr(<<Num(1), Num(0)>>)} }
    \cup { Obj([status |-> Num(1), errors |-> Null]),
           Obj([status |-> Num(0),
                data |-> Arr(<<Obj([status |-> Num(1)]),
                               Obj([status |-> Num(0)])>>)]),
           Obj([data |-> Arr(<<Obj([status |-> Num(1)])>>)]) }

(***************************************************************************)
(* The script: module top level and main()                                 *)
(***************************************************************************)
ClockStart == 59 * 60 + 58

\* the try block with the file-2 upload ahead of the directory creation
StepAfterUploadFirst(step) ==
    CASE step = "write1" -> "upload1"
      [] step = "upload1" -> "write2"
      [] step = "write2" -> "upload2"
      [] step = "upload2" -> "mkdir"
      [] step = "mkdir" -> "finally"

\* the statement main()'s try block runs after `step` completes
StepAfter(step) ==
    CASE step = "write1" -> "upload1"
      [] step = "upload1" -> "mkdir"
      [] step = "mkdir" -> "write2"
      [] step = "write2" -> "upload2"
      [] step = "upload2" -> "finally"

\* a failed statement logged and skipped
OnThrowContinue(step) ==
    CASE step = "write1" -> "upload1"
      [] step = "upload1" -> "mkdir"
      [] step = "mkdir" -> "write2"
      [] step = "write2" -> "upload2"
      [] step = "upload2" -> "finally"

\* where control goes when a statement of the try block throws
OnThrow(step) == "catch"

\* the exit code of process.exit in the validation `if` and in catch
FailureExitCode == 1

Exchange(step, req, resp, outcome) ==
    [step |-> step, request |-> req, response |-> resp, outcome |-> outcome]

\* await loadEnv()
LoadEnv ==
    /\ pc = "loadEnv"
    /\ \E file \in EnvFiles : procEnv' = loadEnv(procEnv, file)
    /\ pc' = "validate"
    /\ UNCHANGED <<clock, timestamp, tempExists, tempCreated, localFiles,
                   requests, thrown, cleanupWarned, exitCode, harnessVars>>

\* the validation `if`, then the call of main()
Validate ==
    /\ pc = "validate"
    /\ IF ConfigMissing(procEnv)
       THEN pc' = "exited" /\ exitCode' = FailureExitCode
       ELSE pc' = "main" /\ UNCHANGED exitCode
    /\ UNCHANGED <<procEnv, clock, timestamp, tempExists, tempCreated,
                   localFiles, requests, thrown, cleanupWarned, harnessVars>>

\* const timestamp = getTimestamp()
TakeTimestamp ==
    /\ pc = "main"
    /\ timestamp' = getTimestamp(clock)
    /\ pc' = "mkdirTemp"
    /\ UNCHANGED <<procEnv, clock, tempExists, tempCreated, localFiles,
                   requests, thrown, cleanupWarned, exitCode, harnessVars>>

\* await fs.mkdir(tempDir, { recursive: true }), outside the try block: a
\* failure rejects main(), which nothing handles
MkdirTemp ==
    /\ pc = "mkdirTemp"
    /\ \/ /\ tempExists' = TRUE
          /\ tempCreated' = TRUE
          /\ pc' = "write1"
          /\ UNCHANGED exitCode
       \/ /\ pc' = "exited"
          /\ exitCode' = 1
          /\ UNCHANGED <<tempExists, tempCreated>>
    /\ UNCHANGED <<procEnv, clock, timestamp, localFiles, requests, thrown,
                   cleanupWarned, harnessVars>>

\* await fs.writeFile(path, 'hello world') at `step`
WriteLocal(step, path) ==
    /\ pc = step
    /\ \/ /\ localFiles' = [p \in DOMAIN localFiles \cup {path} |->
                               IF p = path THEN S_hello_world
                               ELSE localFiles[p]]
          /\ pc' = StepAfter(step)
          /\ UNCHANGED thrown
       \/ /\ thrown' = <<"ENOSPC: no space left on device">>
          /\ pc' = OnThrow(step)
          /\ UNCHANGED localFiles
    /\ UNCHANGED <<procEnv, clock, timestamp, tempExists, tempCreated,
                   requests, cleanupWarned, exitCode, harnessVars>>

WriteFile1 == WriteLocal("write1", file1Path(timestamp))

WriteFile2 == WriteLocal("write2", file2Path(timestamp))

\* await uploadFiles(remoteDir, files) at `step`
UploadStep(step, remoteDir, files) ==
    /\ pc = step
    /\ LET built == BuildForm(remoteDir, files, localFiles)
       IN  IF ~built.ok
           THEN /\ thrown' = built.error
                /\ pc' = OnThrow(step)
                /\ UNCHANGED requests
           ELSE \E resp \in Responses(UploadPayloads) :
                  LET outcome == UploadOutcome(resp)
                  IN  /\ requests' =
                            Append(requests,
                                   Exchange(step,
                                            UploadRequest(procEnv, built.value),
                                            resp, outcome))
                      /\ IF outcome.ok
                         THEN pc' = StepAfter(step) /\ UNCHANGED thrown
                         ELSE pc' = OnThrow(step) /\ thrown' = outcome.error
    /\ UNCHANGED <<procEnv, clock, timestamp, tempExists, tempCreated,
                   localFiles, cleanupWarned, exitCode, harnessVars>>

\* await uploadFiles('public_html', [file1Path])
Upload1 == UploadStep("upload1", S_public_html, <<file1Path(timestamp)>>)

\* await uploadFiles(`public_html/${dirName}`, [file2Path])
Upload2 ==
    UploadStep("upload2", NestedRemoteDir(timestamp), <<file2Path(timestamp)>>)

\* await ensureRemoteDirectory(PUBLIC_HTML_PATH, dirName)
Mkdir ==
    /\ pc = "mkdir"
    /\ \E resp \in Responses(MkdirPayloads) :
         LET outcome == MkdirOutcome(resp)
         IN  /\ requests' =
                   Append(requests,
                          Exchange("mkdir",
                                   MkdirRequest(procEnv,
                                                PUBLIC_HTML_PATH(procEnv),
                                                dirName(timestamp)),
                                   resp, outcome))
             /\ IF outcome.ok
                THEN pc' = StepAfter("mkdir") /\ UNCHANGED thrown
                ELSE pc' = OnThrow("mkdir") /\ thrown' = outcome.error
    /\ UNCHANGED <<procEnv, clock, timestamp, tempExists, tempCreated,
                   localFiles, cleanupWarned, exitCode, harnessVars>>

\* the catch block: it ends in process.exit(1), which ends the process at
\* once, so the finally block does not run
Catch ==
    /\ pc = "catch"
    /\ pc' = "exited"
    /\ exitCode' = FailureExitCode
    /\ UNCHANGED <<procEnv, clock, timestamp, tempExists, tempCreated,
                   localFiles, requests, thrown, cleanupWarned, harnessVars>>

\* the finally block after a try block that completed: fs.rm of tempDir, or
\* the warning when it fails; main() then returns and the process ends
Finally ==
    /\ pc = "finally"
    /\ \/ /\ tempExists' = FALSE
          /\ localFiles' = <<>>
          /\ UNCHANGED cleanupWarned
       \/ /\ cleanupWarned' = TRUE
          /\ UNCHANGED <<tempExists, localFiles>>
    /\ pc' = "exited"
    /\ exitCode' = 0
    /\ UNCHANGED <<procEnv, clock, timestamp, tempCreated, requests, thrown,
                   harnessVars>>

\* a second passes while the script runs
Tick ==
    /\ pc \notin {"exited"}
    /\ clock < ClockStart + MaxTicks
    /\ clock' = clock + 1
    /\ UNCHANGED <<pc, procEnv, timestamp, tempExists, tempCreated,
                   localFiles, requests, thrown, cleanupWarned, exitCode,
                   harnessVars>>

NoCall == [op |-> "none"]

Init ==
    /\ pc = "loadEnv"
    /\ procEnv \in InitialEnvs
    /\ clock = ClockStart
    /\ timestamp = NoValue
    /\ tempExists = FALSE
    /\ tempCreated = FALSE
    /\ localFiles = <<>>
    /\ requests = <<>>
    /\ thrown = NoError
    /\ cleanupWarned = FALSE
    /\ exitCode = -1
    /\ remoteDirs = {}
    /\ call = NoCall
    /\ prevCall = NoCall

Next ==
    \/ LoadEnv
    \/ Validate
    \/ TakeTimestamp
    \/ MkdirTemp
    \/ WriteFile1
    \/ Upload1
    \/ Mkdir
    \/ WriteFile2
    \/ Upload2
    \/ Catch
    \/ Finally
    \/ Tick

Spec == Init /\ [][Next]_vars

(***************************************************************************)
(* The delete operations of the README                                     *)
(***************************************************************************)
\* the GET request deleteRemoteFile issues
DeleteFileRequest(env, relativePathFromHome) ==
    [method |-> "GET", host |-> Host(env), endpoint |-> "/json-api/cpanel",
     authorization |-> Authorization(env),
     cpanel_jsonapi_user |-> CPANEL_USER(env),
     cpanel_jsonapi_apiversion |-> "2",
     cpanel_jsonapi_module |-> "Fileman",
     cpanel_jsonapi_func |-> "fileop",
     op |-> "unlink", sourcefiles |-> relativePathFromHome,
     doubledecode |-> "0"]

\* the GET request deleteRemoteDirectory issues
DeleteDirectoryRequest(env, dirPath) ==
    [method |-> "GET", host |-> Host(env), endpoint |-> "/json-api/cpanel",
     authorization |-> Authorization(env),
     cpanel_jsonapi_user |-> CPANEL_USER(env),
     cpanel_jsonapi_apiversion |-> "2",
     cpanel_jsonapi_module |-> "Fileman",
     cpanel_jsonapi_func |-> "fileop",
     op |-> "rmdir", sourcefiles |-> dirPath]

\* deleteRemoteFile and deleteRemoteDirectory from the fetch on: the fetch is
\* not wrapped, response.ok is not read, the payload is decoded and dropped,
\* and the function has no return statement
DeleteOutcome(resp) ==
    IF resp.kind = "reject" THEN Threw(<<resp.message>>)
    ELSE IF ~resp.body.json THEN JsonSyntaxError
    ELSE Returned(Undefined)

\* decoded bodies of a fileop response
DeletePayloads ==
    { Obj(<<>>),
      Obj([cpanelresult |-> Obj([event |-> Obj([result |-> Num(1)])])]),
      Obj([cpanelresult |->
             Obj([event |-> Obj([result |-> Num(0)]),
                  data |-> Arr(<<Obj([reason |-> Str(<<"d", "e", "n", "i",
                                                       "e", "d">>)])>>)])]) }

(***************************************************************************)
(* The provider, as far as the README describes it                         *)
(***************************************************************************)
\* the absolute path a mkdir request names
MkdirTarget(parentAbsolutePath, name) ==
    parentAbsolutePath \o <<"/">> \o name

\* Fileman/mkdir on the provider: a new directory is created and reported
\* with event.result 1; for one that exists the call fails with the reason
\* "Directory already exists"
ProviderMkdirResponse(dirs, parentAbsolutePath, name) ==
    IF MkdirTarget(parentAbsolutePath, name) \in dirs
    THEN HttpResponse(200, "OK",
             Json(Obj([cpanelresult |->
                        Obj([event |-> Obj([result |-> Num(0)]),
                             data |-> Arr(<<Obj([reason |->
                                                  Str(S_already_exists)])>>)])])))
    ELSE HttpResponse(200, "OK",
             Json(Obj([cpanelresult |->
                        Obj([event |-> Obj([result |-> Num(1)])])])))

ProviderMkdirDirs(dirs, parentAbsolutePath, name) ==
    dirs \cup {MkdirTarget(parentAbsolutePath, name)}

(***************************************************************************)
(* A caller of the four operations                                         *)
(***************************************************************************)
\* the configuration the caller runs with
ClientEnv ==
    [k \in {K_USERNAME, K_SUBDOMAINNAME, K_BLUEHOSTAPI} |->
        CASE k = K_USERNAME -> V_user
          [] k = K_SUBDOMAINNAME -> V_sub
          [] OTHER -> V_token]

HomeDir(env) == HOME_BASE(env) \o <<"/">> \o CPANEL_USER(env)

S_a_txt == <<"a">> \o S_txt

\* the caller's local disk
ClientDisk ==
    [p \in { S_a_txt, <<"/", "w", "/">> \o S_a_txt, <<"d", "/", "b">> } |->
        CASE p = S_a_txt -> <<"1">>
          [] p = <<"d", "/", "b">> -> <<"2">>
          [] OTHER -> <<"3">>]

\* paths the caller passes to uploadFiles; the last names no file
ClientLocalPaths == DOMAIN ClientDisk \cup {<<"d", "/", "n", "o">>}

ClientRemoteDirs ==
    {S_public_html, S_public_html \o <<"/", "a">>}

ClientDirNames == {<<"a">>, S_public_html}

ClientParents == {HomeDir(ClientEnv), PUBLIC_HTML_PATH(ClientEnv)}

ClientDeletePaths ==
    {S_public_html \o <<"/", "a">>, S_public_html \o <<"/">> \o S_a_txt}

\* what the caller remembers of a call once it has returned
Summary(c) ==
    IF c.op = "mkdir" /\ c.served
    THEN [op |-> "mkdir", served |-> TRUE, args |-> c.args,
          presentBefore |-> c.presentBefore, ok |-> c.outcome.ok]
    ELSE [op |-> c.op, served |-> FALSE]

\* ensureRemoteDirectory(parent, name); the request reaches the provider and
\* is answered by it (served), or the exchange goes any other way
CallMkdir ==
    /\ call = NoCall
    /\ \E parent \in ClientParents, name \in ClientDirNames, served \in BOOLEAN :
         \E resp \in IF served
                     THEN {ProviderMkdirResponse(remoteDirs, parent, name)}
                     ELSE Responses(MkdirPayloads) :
            /\ call' = [op |-> "mkdir", args |-> <<parent, name>>,
                        sent |-> TRUE,
                        request |-> MkdirRequest(procEnv, parent, name),
                        response |-> resp, outcome |-> MkdirOutcome(resp),
                        served |-> served,
                        presentBefore |->
                            MkdirTarget(parent, name) \in remoteDirs]
            /\ remoteDirs' = IF served
                             THEN ProviderMkdirDirs(remoteDirs, parent, name)
                             ELSE remoteDirs
    /\ UNCHANGED <<progVars, prevCall>>

\* uploadFiles(remoteDir, files)
CallUpload ==
    /\ call = NoCall
    /\ \E remoteDir \in ClientRemoteDirs,
          files \in SeqsUpTo(ClientLocalPaths, MaxFiles) :
         LET built == BuildForm(remoteDir, files, localFiles)
         IN  IF ~built.ok
             THEN call' = [op |-> "upload", args |-> <<remoteDir, files>>,
                           sent |-> FALSE, outcome |-> built]
             ELSE \E resp \in Responses(UploadPayloads) :
                    call' = [op |-> "upload", args |-> <<remoteDir, files>>,
                             sent |-> TRUE,
                             request |-> UploadRequest(procEnv, built.value),
                             response |-> resp,
                             outcome |-> UploadOutcome(resp)]
    /\ UNCHANGED <<progVars, remoteDirs, prevCall>>

\* deleteRemoteFile(relativePathFromHome)
CallDeleteFile ==
    /\ call = NoCall
    /\ \E path \in ClientDeletePaths, resp \in Responses(DeletePayloads) :
         call' = [op |-> "unlink", args |-> <<path>>, sent |-> TRUE,
                  request |-> DeleteFileRequest(procEnv, path),
                  response |-> resp, outcome |-> DeleteOutcome(resp)]
    /\ UNCHANGED <<progVars, remoteDirs, prevCall>>

\* deleteRemoteDirectory(dirPath)
CallDeleteDirectory ==
    /\ call = NoCall
    /\ \E path \in ClientDeletePaths, resp \in Responses(DeletePayloads) :
         call' = [op |-> "rmdir", args |-> <<path>>, sent |-> TRUE,
                  request |-> DeleteDirectoryRequest(procEnv, path),
                  response |-> resp, outcome |-> DeleteOutcome(resp)]
    /\ UNCHANGED <<progVars, remoteDirs, prevCall>>

\* the call has returned or thrown; the caller goes on to its next call
Return ==
    /\ call # NoCall
    /\ prevCall' = Summary(call)
    /\ call' = NoCall
    /\ UNCHANGED <<progVars, remoteDirs>>

InitClient ==
    /\ pc = "caller"
    /\ procEnv = ClientEnv
    /\ clock = ClockStart
    /\ timestamp = NoValue
    /\ tempExists = FALSE
    /\ tempCreated = FALSE
    /\ localFiles = ClientDisk
    /\ requests = <<>>
    /\ thrown = NoError
    /\ cleanupWarned = FALSE
    /\ exitCode = -1
    /\ remoteDirs = {HomeDir(ClientEnv), PUBLIC_HTML_PATH(ClientEnv)}
    /\ call = NoCall
    /\ prevCall = NoCall

NextClient ==
    \/ CallMkdir
    \/ CallUpload
    \/ CallDeleteFile
    \/ CallDeleteDirectory
    \/ Return

SpecClient == InitClient /\ [][NextClient]_vars

(***************************************************************************)
(* Properties of the script (under Spec)                                   *)
(***************************************************************************)
Exited == pc = "exited"

RemoteFailed == \E i \in 1..Len(requests) : ~requests[i].outcome.ok

\* C1: in every run that created temp_upload, the directory is gone when the
\* process has ended (or, at the least, its removal was attempted and the
\* warning logged), on the success path and on every failure path.
C1_TempDirRemovedOnExit ==
    (Exited /\ tempCreated) => (~tempExists \/ cleanupWarned)

\* C2: once a remote operation has failed, no further request is issued
\* (no retry, no later step), and the process, once ended, has a non-zero exit code; a
\* failed directory creation is never followed by the file-2 upload.
C2_FailureIsFatal ==
    [][RemoteFailed =>
          /\ requests' = requests
          /\ pc' \in {"catch", "exited"}
          /\ (pc' = "exited" => exitCode' # 0)]_vars

C2_Witness ==
    /\ Exited
    /\ Len(requests) = 2
    /\ requests[2].step = "mkdir"
    /\ requests[2].response.kind = "http"
    /\ requests[2].response.status = 200
    /\ requests[2].outcome = Threw(<<"Directory creation failed">>)

\* the relative directory an upload request names in its dir field
UploadDirOf(req) == req.body[1].value.text

\* the absolute path of a directory given relative to the account home
AbsoluteOf(env, relativeDir) ==
    HOME_BASE(env) \o <<"/">> \o EnvGet(env, K_USERNAME) \o <<"/">>
    \o relativeDir

\* exchange j is a directory creation, for the directory that exchange i
\* uploads into, that completed successfully
CreatedBefore(j, i) ==
    /\ j < i
    /\ requests[j].request.method = "GET"
    /\ requests[j].request.cpanel_jsonapi_func = "mkdir"
    /\ requests[j].outcome.ok
    /\ requests[j].request.path \o <<"/">> \o requests[j].request.name
         = AbsoluteOf(procEnv, UploadDirOf(requests[i].request))

\* C3 as stated: every uploadFiles call into a remote directory is preceded
\* by a createDirectory call for that directory that completed successfully.
C3_EveryUploadAfterCreate ==
    \A i \in 1..Len(requests) :
        requests[i].request.method = "POST" =>
            \E j \in 1..Len(requests) : CreatedBefore(j, i)

\* C3 as amended: the calls come in the order uploadFiles(public_html),
\* createDirectory(nested), uploadFiles(nested); the upload into the nested
\* directory is preceded by the successful creation of that directory, and
\* the upload into public_html is the first request of the run.
C3_NestedUploadAfterCreate ==
    /\ Len(requests) <= 3
    /\ \A i \in 1..Len(requests) :
         requests[i].step = <<"upload1", "mkdir", "upload2">>[i]
    /\ \A i \in 1..Len(requests) :
         requests[i].request.method = "POST" =>
            \/ i = 1 /\ UploadDirOf(requests[i].request) = S_public_html
            \/ \E j \in 1..Len(requests) : CreatedBefore(j, i)

C3_Witness ==
    /\ Len(requests) = 3
    /\ requests[3].request.method = "POST"
    /\ UploadDirOf(requests[3].request) # S_public_html
    /\ CreatedBefore(2, 3)

RequiredKeys == {K_USERNAME, K_SUBDOMAINNAME, K_BLUEHOSTAPI}

RequiredSettingMissing ==
    \E k \in RequiredKeys : k \notin DOMAIN procEnv \/ procEnv[k] = <<>>

EnvironmentLoaded == pc \notin {"loadEnv", "validate"}

MainStarted == timestamp # NoValue \/ tempCreated \/ requests # <<>>

\* C4: when USERNAME, SUBDOMAINNAME or BLUEHOSTAPI is absent or empty after
\* environment loading, the process ends with a non-zero exit code before
\* main starts and before any request is issued; with the three present the
\* script goes on to main, whether HOME_BASE is set or not.
C4_MissingConfigIsFatal ==
    EnvironmentLoaded =>
        /\ RequiredSettingMissing =>
              Exited /\ exitCode # 0 /\ ~MainStarted
        /\ ~RequiredSettingMissing => (Exited => MainStarted)

C4_Witness ==
    /\ Exited
    /\ exitCode = 1
    /\ requests = <<>>
    /\ K_SUBDOMAINNAME \in DOMAIN procEnv
    /\ K_BLUEHOSTAPI \in DOMAIN procEnv
    /\ K_USERNAME \in DOMAIN procEnv
    /\ procEnv[K_USERNAME] = <<>>

\* the part of an upload form that carries a file
IsHelloWorldFile(entry, key, fileName) ==
    /\ entry.name = key
    /\ entry.value.kind = "file"
    /\ entry.value.filename = fileName
    /\ entry.value.bytes = S_hello_world

IsUploadOf(req, remoteDir, fileName) ==
    /\ req.method = "POST"
    /\ req.endpoint = "/execute/Fileman/upload_files"
    /\ Len(req.body) = 2
    /\ req.body[1].name = S_dir
    /\ req.body[1].value.text = remoteDir
    /\ IsHelloWorldFile(req.body[2], <<"f", "i", "l", "e", "-", "1">>,
                        fileName)

IsMkdirOf(req, parent, name) ==
    /\ req.method = "GET"
    /\ req.cpanel_jsonapi_func = "mkdir"
    /\ req.path = parent
    /\ req.name = name

AllThreeSucceeded ==
    /\ Len(requests) = 3
    /\ \A i \in 1..3 : requests[i].outcome.ok

\* C5: a run in which the three remote steps succeed issues exactly three
\* requests, in order: the upload of T.txt ('hello world') into public_html,
\* the mkdir of T_test_dir under the absolute web root, the upload of
\* T_file2.txt ('hello world') into public_html/T_test_dir, with T the one
\* timestamp of the run; it ends with exit code 0, and no other run does.
C5_ThreeRequestsThenExitZero ==
    /\ Len(requests) <= 3
    /\ Len(requests) >= 1 =>
          IsUploadOf(requests[1].request, S_public_html, timestamp \o S_txt)
    /\ Len(requests) >= 2 =>
          IsMkdirOf(requests[2].request,
                    AbsoluteOf(procEnv, S_public_html),
                    timestamp \o S_test_dir)
    /\ Len(requests) >= 3 =>
          IsUploadOf(requests[3].request,
                     S_public_html \o <<"/">> \o timestamp \o S_test_dir,
                     timestamp \o S_file2_txt)
    /\ \A i \in 1..(Len(requests) - 1) : requests[i].outcome.ok
    /\ Exited => (exitCode = 0 <=> AllThreeSucceeded)
    /\ (timestamp # NoValue) => Len(timestamp) = 14

C5_Witness ==
    /\ Exited
    /\ exitCode = 0
    /\ AllThreeSucceeded
    /\ clock # ClockStart

(***************************************************************************)
(* Properties of the client operations (under SpecClient)                  *)
(***************************************************************************)
HasField(x, key) == x.t = "object" /\ key \in DOMAIN x.v

\* the call got a response with a 2xx status and a body that decodes
Decoded(c) ==
    /\ c.sent
    /\ c.response.kind = "http"
    /\ c.response.status \in 200..299
    /\ c.response.body.json

NonOkStatus(c) ==
    /\ c.sent
    /\ c.response.kind = "http"
    /\ c.response.status \notin 200..299

Rejected(c) == c.sent /\ c.response.kind = "reject"

PayloadOf(c) == c.response.body.value

\* the payload carries cpanelresult.event.result, the number 1
SuccessIndicator(p) ==
    /\ HasField(p, "cpanelresult")
    /\ HasField(p.v.cpanelresult, "event")
    /\ HasField(p.v.cpanelresult.v.event, "result")
    /\ p.v.cpanelresult.v.event.v.result.t = "number"
    /\ p.v.cpanelresult.v.event.v.result.v = 1

\* the payload carries cpanelresult.data[0].reason, a text containing 'exists'
ExistsReason(p) ==
    /\ HasField(p, "cpanelresult")
    /\ HasField(p.v.cpanelresult, "data")
    /\ p.v.cpanelresult.v.data.t = "array"
    /\ Len(p.v.cpanelresult.v.data.v) >= 1
    /\ HasField(p.v.cpanelresult.v.data.v[1], "reason")
    /\ p.v.cpanelresult.v.data.v[1].v.reason.t = "string"
    /\ \E i \in 1..(Len(p.v.cpanelresult.v.data.v[1].v.reason.v) - 5) :
          SubSeq(p.v.cpanelresult.v.data.v[1].v.reason.v, i, i + 5)
            = <<"e", "x", "i", "s", "t", "s">>

SecondOfTwoCreates ==
    /\ call.op = "mkdir"
    /\ call.served
    /\ prevCall.op = "mkdir"
    /\ prevCall.served
    /\ prevCall.args = call.args
    /\ ~prevCall.presentBefore

\* C7: for a directory not yet present, createDirectory followed at once by
\* createDirectory with the same arguments succeeds both times, the first
\* time by the success indicator and the second by the provider's
\* already-exists reason (no transport or HTTP-status failure).
C7_CreateTwiceSucceeds ==
    /\ (call.op = "mkdir" /\ call.served /\ ~call.presentBefore) =>
          call.outcome.ok /\ SuccessIndicator(PayloadOf(call))
    /\ SecondOfTwoCreates =>
          /\ prevCall.ok
          /\ call.outcome.ok
          /\ call.presentBefore
          /\ ~SuccessIndicator(PayloadOf(call))
          /\ ExistsReason(PayloadOf(call))

C7_Witness == SecondOfTwoCreates /\ call.outcome.ok

\* the category of a failure, read off its reason
ReasonCategory(message) ==
    CASE message[1] = "Fetch failed: " -> "transport"
      [] message[1] = "HTTP " -> "http"
      [] message \in {<<"Directory creation failed">>,
                      <<"File upload failed">>} -> "application"
      [] OTHER -> "other"

ReasonCarries(message, part) == \E i \in 1..Len(message) : message[i] = part

NthFileKey(k) ==
    <<"f", "i", "l", "e", "-">> \o <<<<"1", "2", "3", "4", "5">>[k]>>

\* name is the last segment of path
IsBaseNameOf(name, path) ==
    /\ \A i \in 1..Len(name) : name[i] # "/"
    /\ \/ path = name
       \/ /\ Len(path) > Len(name)
          /\ SubSeq(path, Len(path) - Len(name), Len(path)) = <<"/">> \o name

\* C9: for a non-empty sequence of N local files the form uploadFiles sends
\* holds exactly one file part per file, the i-th file under the key file-i,
\* in input order, with that file's base name (and bytes), and exactly one
\* dir field, whose value is the relative directory as given.
C9_FormParts ==
    (call.op = "upload" /\ call.sent /\ call.args[2] # <<>>) =>
        LET form == call.request.body
            files == call.args[2]
        IN  /\ Len(form) = Len(files) + 1
            /\ Cardinality({ i \in 1..Len(form) : form[i].name = S_dir }) = 1
            /\ \A i \in 1..Len(form) :
                  form[i].name = S_dir =>
                      form[i].value = [kind |-> "text", text |-> call.args[1]]
            /\ \A k \in 1..Len(files) :
                  /\ Cardinality({ i \in 1..Len(form) :
                                     form[i].name = NthFileKey(k) }) = 1
                  /\ form[k + 1].name = NthFileKey(k)
                  /\ form[k + 1].value.kind = "file"
                  /\ IsBaseNameOf(form[k + 1].value.filename, files[k])
                  /\ form[k + 1].value.bytes = localFiles[files[k]]

C9_Witness ==
    /\ call.op = "upload"
    /\ call.sent
    /\ Len(call.args[2]) = 2
    /\ call.args[2][1] # call.args[2][2]
    /\ call.request.body[3].value.filename = call.request.body[2].value.filename

\* the payload carries a top-level status flag that is the number 1
StatusFlagIsOne(p) ==
    /\ HasField(p, "status")
    /\ p.v.status.t = "number"
    /\ p.v.status.v = 1

\* C10: for every decoded 2xx response to uploadFiles the result is Success
\* when the payload's status flag equals 1 and Failure for anything else
\* (no status, another value, per-file status); there is no third outcome.
C10_UploadClassification ==
    (call.op = "upload" /\ Decoded(call)) =>
        /\ call.outcome.ok <=> StatusFlagIsOne(PayloadOf(call))
        /\ call.outcome.ok => call.outcome = Returned(TRUE)
        /\ ~call.outcome.ok => DOMAIN call.outcome = {"ok", "error"}

C10_Witness ==
    /\ call.op = "upload"
    /\ Decoded(call)
    /\ HasField(PayloadOf(call), "data")
    /\ HasField(PayloadOf(call), "status")
    /\ ~call.outcome.ok

====
